---- MODULE Spec2Model ----
(***************************************************************************)
(* manage_images.py: the command-line tool that builds, lists and removes  *)
(* the fuzzer-build-container images through an external container         *)
(* runtime (docker or podman).                                             *)
(*                                                                         *)
(* The tool is one sequential process.  Every subprocess.run call is one   *)
(* step of the model: the step appends the command to `log`, draws the     *)
(* command's outcome from the outcomes the runtime can produce, and runs   *)
(* the Python code up to the next subprocess call.  The container runtime  *)
(* is the pair (images, containers); in SpecEnv other clients of the same  *)
(* runtime change it between the tool's commands.                          *)
(***************************************************************************)
EXTENDS Naturals, Sequences, FiniteSets

\* How many entries of COMPILER_METADATA (in table order) a run works with.
NumCompilers == 3
\* How many commands other clients of the runtime issue during one run (SpecEnv).
MaxEnvSteps == 1

(***************************************************************************)
(* Static tables                                                           *)
(***************************************************************************)

\* COMPILER_METADATA in dict (insertion) order.  type and version are what
\* compiler.split('-', 1) yields for the key.
COMPILER_METADATA ==
  << [compiler |-> "clang-5",  type |-> "clang", version |-> "5",   ubuntu |-> "16.04"],
     [compiler |-> "clang-6",  type |-> "clang", version |-> "6",   ubuntu |-> "16.04"],
     [compiler |-> "clang-7",  type |-> "clang", version |-> "7",   ubuntu |-> "18.04"],
     [compiler |-> "clang-8",  type |-> "clang", version |-> "8",   ubuntu |-> "18.04"],
     [compiler |-> "clang-9",  type |-> "clang", version |-> "9",   ubuntu |-> "20.04"],
     [compiler |-> "clang-10", type |-> "clang", version |-> "10",  ubuntu |-> "20.04"],
     [compiler |-> "clang-11", type |-> "clang", version |-> "11",  ubuntu |-> "20.04"],
     [compiler |-> "clang-12", type |-> "clang", version |-> "12",  ubuntu |-> "22.04"],
     [compiler |-> "clang-13", type |-> "clang", version |-> "13",  ubuntu |-> "22.04"],
     [compiler |-> "clang-14", type |-> "clang", version |-> "14",  ubuntu |-> "22.04"],
     [compiler |-> "clang-15", type |-> "clang", version |-> "15",  ubuntu |-> "24.04"],
     [compiler |-> "clang-16", type |-> "clang", version |-> "16",  ubuntu |-> "24.04"],
     [compiler |-> "clang-17", type |-> "clang", version |-> "17",  ubuntu |-> "24.04"],
     [compiler |-> "gcc-4.9",  type |-> "gcc",   version |-> "4.9", ubuntu |-> "16.04"],
     [compiler |-> "gcc-5",    type |-> "gcc",   version |-> "5",   ubuntu |-> "16.04"],
     [compiler |-> "gcc-6",    type |-> "gcc",   version |-> "6",   ubuntu |-> "18.04"],
     [compiler |-> "gcc-7",    type |-> "gcc",   version |-> "7",   ubuntu |-> "18.04"],
     [compiler |-> "gcc-8",    type |-> "gcc",   version |-> "8",   ubuntu |-> "20.04"],
     [compiler |-> "gcc-9",    type |-> "gcc",   version |-> "9",   ubuntu |-> "20.04"],
     [compiler |-> "gcc-10",   type |-> "gcc",   version |-> "10",  ubuntu |-> "20.04"],
     [compiler |-> "gcc-11",   type |-> "gcc",   version |-> "11",  ubuntu |-> "22.04"],
     [compiler |-> "gcc-12",   type |-> "gcc",   version |-> "12",  ubuntu |-> "22.04"],
     [compiler |-> "gcc-13",   type |-> "gcc",   version |-> "13",  ubuntu |-> "24.04"],
     [compiler |-> "gcc-14",   type |-> "gcc",   version |-> "14",  ubuntu |-> "24.04"] >>

Min(a, b) == IF a < b THEN a ELSE b

\* The part of the table the model works with: its first NumCompilers rows.
Table == SubSeq(COMPILER_METADATA, 1, Min(NumCompilers, Len(COMPILER_METADATA)))

\* list(COMPILER_METADATA.keys())
Keys == [i \in DOMAIN Table |-> Table[i].compiler]

Compilers == {Keys[i] : i \in DOMAIN Keys}

\* SUPPORTED_COMPILERS = list(COMPILER_METADATA.keys()) + ['all']
SUPPORTED_COMPILERS == Compilers \cup {"all"}

Meta(c) == CHOOSE r \in {Table[i] : i \in DOMAIN Table} : r.compiler = c

\* A value of an option that was not given (Python's None).
None == "None"

\* A compiler name that is not a key of the table.
Unknown == "tcc-1"

\* Python truthiness of an optional string: None and '' are false.
Truthy(s) == s # None /\ s # ""

\* str.replace(',', ' ') on the --deps values the model draws.
ReplaceCommas(s) == CASE s = "a,b" -> "a b" [] OTHER -> s

(***************************************************************************)
(* State                                                                   *)
(***************************************************************************)

VARIABLES
  args,             \* the command line: the argparse namespace
  pc,               \* where the process is
  exit_code,        \* the process's exit status: <<>> while it runs, then <<status>>
  err,              \* why the process ended ("" while it runs or on success)
  runtime,          \* ContainerImage.runtime
  runtime_cmd,      \* ContainerImage.runtime_cmd (<<>> is Python's None)
  quiet,            \* ContainerImage.quiet
  fuzzer_name,      \* ContainerImage.fuzzer_name
  additional_deps,  \* ContainerImage.additional_deps
  todo,             \* compilers_to_build / compilers_to_remove
  idx,              \* the loop's position in todo
  image,            \* the ContainerImage at hand: [compiler, tag, id]
  fail_cnt,         \* remove_images' fail_cnt
  log,              \* every subprocess.run so far, with its exit status
  printed,          \* what the tool has printed
  images,           \* runtime: the compilers whose tag names an image
  containers,       \* runtime: the compilers whose image a container references
  env_steps,        \* commands other clients have issued
  second            \* the two-calls driver: <<>>, or what held when the second build() began

vars == << args, pc, exit_code, err, runtime, runtime_cmd, quiet, fuzzer_name,
           additional_deps, todo, idx, image, fail_cnt, log, printed, images,
           containers, env_steps, second >>

config == << runtime, runtime_cmd, quiet, fuzzer_name, additional_deps >>
world == << images, containers, env_steps >>

NoImage == [compiler |-> "", tag |-> <<>>, id |-> ""]

\* The argparse namespaces the model draws.  --build and --remove take an
\* optional value (const='all'); --fuzzer and --deps take a string.
CompilerValues == {None, "all", Unknown} \cup Compilers

ArgSpace ==
  [ docker : BOOLEAN, podman : BOOLEAN, list : BOOLEAN, quiet : BOOLEAN,
    build : CompilerValues, remove : CompilerValues,
    fuzzer : {None, "fz"}, deps : {None, "", "a,b"} ]

\* The runtime before the tool starts: any set of images, containers on some of them.
WorldInit ==
  /\ images \in SUBSET Compilers
  /\ containers \in SUBSET images
  /\ env_steps = 0

ProcessInit ==
  /\ pc = "main"
  /\ exit_code = <<>>
  /\ err = ""
  /\ runtime = None
  /\ runtime_cmd = <<>>
  /\ quiet = FALSE
  /\ fuzzer_name = None
  /\ additional_deps = None
  /\ todo = <<>>
  /\ idx = 1
  /\ image = NoImage
  /\ fail_cnt = 0
  /\ log = <<>>
  /\ printed = {}
  /\ second = <<>>

Init ==
  /\ args \in ArgSpace
  /\ ProcessInit
  /\ WorldInit

(***************************************************************************)
(* Helpers of every step                                                   *)
(***************************************************************************)

\* A printed line: which message, about which compiler, with which count.
Msg(m, c, n) == [msg |-> m, compiler |-> c, n |-> n]

\* One subprocess.run: the command prefix, the runtime sub-command, its
\* arguments and the exit status it returned.
Cmd(prefix, op, a, rc) == [prefix |-> prefix, op |-> op, args |-> a, rc |-> rc]

Run(prefix, op, a, rc) == log' = Append(log, Cmd(prefix, op, a, rc))

\* sys.exit(<message>) exits with status 1; an uncaught exception does too.
Abort(why) ==
  /\ pc' = "aborted"
  /\ exit_code' = <<1>>
  /\ err' = why

\* Exit statuses a runtime command can return.
ExitStatus == {0, 1}

(***************************************************************************)
(* main(): argument checks and dispatch (lines 277-333)                    *)
(***************************************************************************)

\* argparse's choices=SUPPORTED_COMPILERS on --build and --remove.
ChoiceOk(v) == v = None \/ v \in SUPPORTED_COMPILERS

\* The first check of main() that ends the process, in the code's order;
\* "" when the command line passes them all.
ConfigError(a) ==
  IF ~ChoiceOk(a.build) \/ ~ChoiceOk(a.remove) THEN "invalid_choice"
  ELSE IF a.podman /\ a.docker THEN "multiple_engines"
  ELSE IF ~(a.list \/ Truthy(a.build) \/ Truthy(a.remove)) THEN "no_action"
  ELSE IF Cardinality({k \in {"list", "build", "remove"} :
                         \/ k = "list" /\ a.list
                         \/ k = "build" /\ Truthy(a.build)
                         \/ k = "remove" /\ Truthy(a.remove)}) > 1
       THEN "invalid_combination"
  ELSE IF Truthy(a.build) /\ ~Truthy(a.fuzzer) THEN "fuzzer_required_build"
  ELSE IF Truthy(a.remove) /\ ~Truthy(a.fuzzer) THEN "fuzzer_required_remove"
  ELSE IF a.quiet /\ ~Truthy(a.build) THEN "quiet_without_build"
  ELSE IF Truthy(a.deps) /\ ~Truthy(a.build) THEN "deps_without_build"
  ELSE ""

\* The checks in the order main() makes them: a class attribute is assigned
\* only when every check before its assignment passed.
CheckOrder ==
  << "invalid_choice", "multiple_engines", "no_action", "invalid_combination",
     "fuzzer_required_build", "fuzzer_required_remove", "quiet_without_build",
     "deps_without_build", "" >>

Rank(e) == CHOOSE i \in DOMAIN CheckOrder : CheckOrder[i] = e

Passed(e, check) == Rank(e) > Rank(check)

\* parser.error exits with 2; parser.print_help() + sys.exit(1) and
\* sys.exit(<message>) exit with 1.
ConfigExit(e) == IF e = "invalid_choice" THEN 2 ELSE 1

\* compilers_to_build / compilers_to_remove
CompilersFor(needed_compiler) ==
  IF needed_compiler = "all" THEN Keys ELSE << needed_compiler >>

Main ==
  /\ pc = "main"
  /\ LET e == ConfigError(args) IN
       /\ runtime' = IF Passed(e, "multiple_engines")
                        THEN (IF args.docker THEN "docker"
                              ELSE IF args.podman THEN "podman" ELSE "docker")
                        ELSE runtime
       /\ fuzzer_name' = IF \/ Truthy(args.build) /\ Passed(e, "fuzzer_required_build")
                            \/ Truthy(args.remove) /\ Passed(e, "fuzzer_required_remove")
                           THEN args.fuzzer ELSE fuzzer_name
       /\ quiet' = IF args.quiet /\ Passed(e, "quiet_without_build") THEN TRUE ELSE quiet
       /\ additional_deps' = IF Truthy(args.deps) /\ e = ""
                               THEN ReplaceCommas(args.deps) ELSE additional_deps
       /\ printed' = IF Passed(e, "multiple_engines")
                        THEN {Msg("engine", "", 0)}
                             \cup (IF e = "no_action" THEN {Msg("help", "", 0)} ELSE {})
                        ELSE printed
       /\ IF e # ""
            THEN /\ pc' = "aborted"
                 /\ exit_code' = << ConfigExit(e) >>
                 /\ err' = e
                 /\ UNCHANGED todo
            ELSE /\ UNCHANGED << exit_code, err >>
                 /\ IF args.list
                      THEN pc' = "list" /\ UNCHANGED todo
                      ELSE /\ pc' = "init"
                           /\ todo' = CompilersFor(IF Truthy(args.build) THEN args.build
                                                    ELSE args.remove)
  /\ UNCHANGED << args, runtime_cmd, idx, image, fail_cnt, log, world, second >>

(***************************************************************************)
(* The runtime's answers                                                   *)
(***************************************************************************)

\* 'fuzzer-build-container:{fuzzer_name}-{compiler}'
Tag(fz, c) == << "fuzzer-build-container", fz, c >>

\* The ID the runtime gives the image built for a compiler's tag.
IdOf(c) == c

\* inspect --format {{.ID}}: the full ID of a short one.
FullId(id) == << "sha256", id >>

\* stdout of 'images <tag> --format {{.ID}}', as whitespace-separated tokens:
\* nothing when no image has the tag, its ID otherwise (Podman may print it twice).
ImagesOutput(c) ==
  IF c \in images THEN { << IdOf(c) >>, << IdOf(c), IdOf(c) >> } ELSE { <<>> }

\* stdout of 'ps -a --filter ancestor=<full_id> --format {{.ID}}'.
ContainersOutput(c) == IF c \in containers THEN << "ctr" >> ELSE <<>>

\* What the '<runtime> ps' probe can end in.
ProbeOutcomes == {"ok", "permission_denied", "other_error", "not_installed"}

ProbeRc(o) == IF o = "ok" THEN 0 ELSE IF o = "not_installed" THEN 127 ELSE 1

(***************************************************************************)
(* ContainerImage                                                          *)
(***************************************************************************)

\* identify_runtime_cmd without the test for docker: sudo for any engine.
identify_runtime_cmd_AnyEngine(rt, o) ==
  IF o = "ok" THEN << rt >>
  ELSE IF o = "permission_denied" THEN << "sudo", rt >>
  ELSE <<>>

\* identify_runtime_cmd: the command prefix for a probe outcome; <<>> when
\* the method ends the process instead.
identify_runtime_cmd(rt, o) ==
  IF o = "ok" THEN << rt >>
  ELSE IF rt = "docker" /\ o = "permission_denied" THEN << "sudo", rt >>
  ELSE <<>>

\* ensure_runtime_cmd: the same decision, made by list_all_images.
ensure_runtime_cmd(rt, o) ==
  IF o = "ok" THEN << rt >>
  ELSE IF rt = "docker" /\ o = "permission_denied" THEN << "sudo", rt >>
  ELSE <<>>

ProbeError(o) == IF o = "not_installed" THEN "runtime_not_installed" ELSE "probe_unknown_error"

\* 'if not ContainerImage.runtime_cmd' (lines 76 and 209)
NeedsProbe == runtime_cmd = <<>>

\* find_id's result for the stdout of the images query.
find_id(out) == IF out # <<>> THEN Head(out) ELSE ""

\* __init__, up to the probe: cmd = [self.runtime, 'ps'].  The compiler is a
\* key of the table (line 73): argparse's choices let no other name through.
Init_identify ==
  /\ pc = "init"
  /\ todo[idx] \in Compilers
  /\ NeedsProbe
  /\ \E o \in ProbeOutcomes :
       LET r == identify_runtime_cmd(runtime, o) IN
       /\ Run(<< runtime >>, "ps", <<>>, ProbeRc(o))
       /\ runtime_cmd' = r
       /\ printed' = IF Len(r) = 2 THEN printed \cup {Msg("need_sudo", "", 0)} ELSE printed
       /\ IF r = <<>> THEN Abort(ProbeError(o)) ELSE UNCHANGED << pc, exit_code, err >>
  /\ UNCHANGED << args, runtime, quiet, fuzzer_name, additional_deps, todo, idx, image,
                  fail_cnt, world, second >>

\* What the method at hand is, once the image is constructed.
Method == IF Truthy(args.build) THEN "build" ELSE "rm"

\* self.find_id(): one images query; a non-zero status ends the process.
FindId(c, next) ==
  \E rc \in ExitStatus : \E out \in ImagesOutput(c) :
    /\ Run(runtime_cmd, "images", << Tag(fuzzer_name, c) >>, rc)
    /\ IF rc # 0
         THEN Abort("find_id_failed") /\ UNCHANGED image
         ELSE /\ image' = [compiler |-> c, tag |-> Tag(fuzzer_name, c), id |-> find_id(out)]
              /\ pc' = next
              /\ UNCHANGED << exit_code, err >>

\* __init__, from the assignments on: self.id = self.find_id().
Init_find ==
  /\ pc = "init"
  /\ todo[idx] \in Compilers
  /\ ~NeedsProbe
  /\ FindId(todo[idx], Method)
  /\ UNCHANGED << args, config, todo, idx, fail_cnt, printed, world, second >>

\* 'if self.id' that never finds an ID: build() builds again.
ImageExists_Never(id) == FALSE

\* 'if not self.id' that never finds the ID empty: rm() goes on.
ImageExists_Always(id) == TRUE

\* 'if self.id' of build (line 87) and 'if not self.id' of rm (line 123).
ImageExists(id) == id # ""

\* build(): the image exists, nothing to do.
Build_exists ==
  /\ pc = "build"
  /\ ImageExists(image.id)
  /\ printed' = printed \cup {Msg("exists", image.compiler, 0)}
  /\ pc' = "ret"
  /\ UNCHANGED << args, exit_code, err, config, todo, idx, image, fail_cnt, log, world,
                  second >>

\* The --build-arg pairs and options of the build command (lines 93-116).
BuildArgs(c) ==
  << << "UBUNTU_VERSION", Meta(c).ubuntu >> >>
  \o (IF Meta(c).type = "gcc" THEN << << "GCC_VERSION", Meta(c).version >> >>
                               ELSE << << "CLANG_VERSION", Meta(c).version >> >>)
  \o (IF Truthy(additional_deps) THEN << << "ADDITIONAL_DEPS", additional_deps >> >> ELSE <<>>)
  \o << << "-t", Tag(fuzzer_name, c) >> >>
  \o (IF quiet THEN << << "-q", "" >> >> ELSE <<>>)

\* subprocess.run(..., check=False): no status raises.
Raises_Unchecked(rc) == FALSE

\* subprocess.run(..., check=True) raises CalledProcessError on a non-zero status.
Raises(rc) == rc # 0

\* build(): the build command.
Build_run ==
  /\ pc = "build"
  /\ ~ImageExists(image.id)
  /\ \E rc \in ExitStatus :
       /\ Run(runtime_cmd, "build", BuildArgs(image.compiler), rc)
       /\ printed' = printed \cup {Msg("building", image.compiler, 0)}
                              \cup (IF quiet THEN {Msg("quiet", "", 0)} ELSE {})
       /\ IF Raises(rc)
            THEN Abort("CalledProcessError") /\ UNCHANGED images
            ELSE /\ images' = images \cup {image.compiler}
                 /\ pc' = "build_find"
                 /\ UNCHANGED << exit_code, err >>
  /\ UNCHANGED << args, config, todo, idx, image, fail_cnt, containers, env_steps, second >>

\* build(): self.id = self.find_id() after the build.
Build_find ==
  /\ pc = "build_find"
  /\ FindId(image.compiler, "ret")
  /\ UNCHANGED << args, config, todo, idx, fail_cnt, printed, world, second >>

\* rm(): no image, nothing to remove (lines 123-125).
Rm_absent ==
  /\ pc = "rm"
  /\ ~ImageExists(image.id)
  /\ printed' = printed \cup {Msg("no_image", image.compiler, 0)}
  /\ pc' = "ret"
  /\ UNCHANGED << args, exit_code, err, config, todo, idx, image, fail_cnt, log, world,
                  second >>

\* rm() without the assert.
AssertFails_Stripped(full_id) == FALSE

\* 'assert full_id' (line 134): an empty full ID raises AssertionError.
AssertFails(full_id) == full_id = <<>>

\* rm(): inspect for the full ID (check=True), then 'assert full_id'.  For an
\* image that is gone the runtime either fails or prints nothing.
Rm_inspect ==
  /\ pc = "rm"
  /\ ImageExists(image.id)
  /\ printed' = printed \cup {Msg("removing", image.compiler, 0)}
  /\ \E rc \in ExitStatus :
       LET full_id == IF image.compiler \in images THEN FullId(image.id) ELSE <<>> IN
       /\ Run(runtime_cmd, "inspect", << image.id >>, rc)
       /\ IF Raises(rc) THEN Abort("CalledProcessError")
          ELSE IF AssertFails(full_id) THEN Abort("AssertionError")
          ELSE pc' = "rm_ps" /\ UNCHANGED << exit_code, err >>
  /\ UNCHANGED << args, config, todo, idx, image, fail_cnt, world, second >>

\* rm() that does not look at the container query's output.
InUse_Ignored(running_containers) == FALSE

\* 'if running_containers' (line 141)
InUse(running_containers) == running_containers # <<>>

\* rm(): the container query (check=True) and the branch on its output.
Rm_ps ==
  /\ pc = "rm_ps"
  /\ \E rc \in ExitStatus :
       LET running_containers == ContainersOutput(image.compiler) IN
       /\ Run(runtime_cmd, "ps -a", << FullId(image.id) >>, rc)
       /\ IF Raises(rc) THEN Abort("CalledProcessError") /\ UNCHANGED printed
          ELSE IF InUse(running_containers)
          THEN /\ printed' = printed \cup {Msg("in_use", image.compiler, 0)}
               /\ pc' = "rm_find"
               /\ UNCHANGED << exit_code, err >>
          ELSE /\ pc' = "rm_rmi"
               /\ UNCHANGED << printed, exit_code, err >>
  /\ UNCHANGED << args, config, todo, idx, image, fail_cnt, world, second >>

\* rm(): 'rmi -f <id>' (check=True).  A command that returns 0 has removed the
\* image or, held by something the container query does not show, left it.
Rm_rmi ==
  /\ pc = "rm_rmi"
  /\ \E rc \in ExitStatus :
       /\ Run(runtime_cmd, "rmi -f", << image.id >>, rc)
       /\ IF Raises(rc)
            THEN Abort("CalledProcessError") /\ UNCHANGED images
            ELSE /\ images' \in {images \ {image.compiler}, images}
                 /\ pc' = "rm_find"
                 /\ UNCHANGED << exit_code, err >>
  /\ UNCHANGED << args, config, todo, idx, image, fail_cnt, printed, containers,
                  env_steps, second >>

\* rm(): self.id = self.find_id(), on both branches (line 148).
Rm_find ==
  /\ pc = "rm_find"
  /\ FindId(image.compiler, "ret")
  /\ UNCHANGED << args, config, todo, idx, fail_cnt, printed, world, second >>

(***************************************************************************)
(* build_images, remove_images: the loops (lines 177-204)                  *)
(***************************************************************************)

\* remove_images that counts every compiler it went through.
Tally_CountsAll(method, id, cnt) == IF method = "rm" THEN cnt + 1 ELSE cnt

\* 'if image.id: fail_cnt += 1' of remove_images; build_images counts nothing.
Tally(method, id, cnt) == IF method = "rm" /\ ImageExists(id) THEN cnt + 1 ELSE cnt

\* The method returned and the loop has another compiler.
Ret_next ==
  /\ pc = "ret"
  /\ second = <<>>
  /\ idx < Len(todo)
  /\ fail_cnt' = Tally(Method, image.id, fail_cnt)
  /\ idx' = idx + 1
  /\ pc' = "init"
  /\ UNCHANGED << args, exit_code, err, config, todo, image, log, printed, world, second >>

\* The method returned for the last compiler: remove_images prints its
\* summary, and main() goes on to list_all_images().
Ret_last ==
  /\ pc = "ret"
  /\ second = <<>>
  /\ idx = Len(todo)
  /\ fail_cnt' = Tally(Method, image.id, fail_cnt)
  /\ printed' = IF fail_cnt' > 0 THEN printed \cup {Msg("failed_to_remove", "", fail_cnt')}
                                  ELSE printed
  /\ idx' = idx + 1
  /\ pc' = "list"
  /\ UNCHANGED << args, exit_code, err, config, todo, image, log, world, second >>

(***************************************************************************)
(* list_all_images (lines 224-248)                                         *)
(***************************************************************************)

List_ensure ==
  /\ pc = "list"
  /\ NeedsProbe
  /\ \E o \in ProbeOutcomes :
       LET r == ensure_runtime_cmd(runtime, o) IN
       /\ Run(<< runtime >>, "ps", <<>>, ProbeRc(o))
       /\ runtime_cmd' = r
       /\ printed' = IF Len(r) = 2 THEN printed \cup {Msg("need_sudo", "", 0)} ELSE printed
       /\ IF r = <<>> THEN Abort(ProbeError(o)) ELSE UNCHANGED << pc, exit_code, err >>
  /\ UNCHANGED << args, runtime, quiet, fuzzer_name, additional_deps, todo, idx, image,
                  fail_cnt, world, second >>

\* An exit status that reports the failed removals.
ExitDone_FailCount == IF fail_cnt > 0 THEN 1 ELSE 0

\* sys.exit(0) after list_all_images() on each of the three paths of main().
ExitDone == 0

\* The images query (check=True), the rows it prints, and main()'s exit.
List_images ==
  /\ pc = "list"
  /\ ~NeedsProbe
  /\ \E rc \in ExitStatus :
       /\ Run(runtime_cmd, "images --format", <<>>, rc)
       /\ IF Raises(rc)
            THEN Abort("CalledProcessError") /\ UNCHANGED printed
            ELSE /\ printed' = printed \cup (IF images = {} THEN {Msg("no_images_found", "", 0)}
                                              ELSE {Msg("row", c, 0) : c \in images})
                 /\ pc' = "done"
                 /\ exit_code' = << ExitDone >>
                 /\ UNCHANGED err
  /\ UNCHANGED << args, config, todo, idx, image, fail_cnt, world, second >>

Next ==
  \/ Main
  \/ Init_identify \/ Init_find
  \/ Build_exists \/ Build_run \/ Build_find
  \/ Rm_absent \/ Rm_inspect \/ Rm_ps \/ Rm_rmi \/ Rm_find
  \/ Ret_next \/ Ret_last
  \/ List_ensure \/ List_images

Spec == Init /\ [][Next]_vars

(***************************************************************************)
(* Other clients of the same container runtime.  They act between the      *)
(* tool's commands, while the tool runs.                                   *)
(***************************************************************************)

Running == pc \notin {"main", "done", "aborted"}

\* Another client starts a container from an image.
Env_run ==
  /\ Running /\ env_steps < MaxEnvSteps
  /\ \E c \in images \ containers : containers' = containers \cup {c}
  /\ env_steps' = env_steps + 1
  /\ UNCHANGED << args, pc, exit_code, err, config, todo, idx, image, fail_cnt, log,
                  printed, images, second >>

\* Another client deletes the containers of an image.
Env_rm ==
  /\ Running /\ env_steps < MaxEnvSteps
  /\ \E c \in containers : containers' = containers \ {c}
  /\ env_steps' = env_steps + 1
  /\ UNCHANGED << args, pc, exit_code, err, config, todo, idx, image, fail_cnt, log,
                  printed, images, second >>

\* Another client removes an image.
Env_rmi ==
  /\ Running /\ env_steps < MaxEnvSteps
  /\ \E c \in images : images' = images \ {c}
  /\ env_steps' = env_steps + 1
  /\ UNCHANGED << args, pc, exit_code, err, config, todo, idx, image, fail_cnt, log,
                  printed, containers, second >>

\* A remove run of the tool (any valid --remove command line) beside the
\* other clients.
InitEnv ==
  /\ args \in {a \in ArgSpace : ConfigError(a) = "" /\ Truthy(a.remove)}
  /\ ProcessInit
  /\ WorldInit

NextEnv ==
  \/ Main
  \/ Init_identify \/ Init_find
  \/ Rm_absent \/ Rm_inspect \/ Rm_ps \/ Rm_rmi \/ Rm_find
  \/ Ret_next \/ Ret_last
  \/ List_images
  \/ Env_run \/ Env_rm \/ Env_rmi

SpecEnv == InitEnv /\ [][NextEnv]_vars

(***************************************************************************)
(* Two calls of build() for one tag: on the same ContainerImage, or on a   *)
(* second one constructed for the same compiler.                           *)
(***************************************************************************)

InitTwice ==
  /\ args \in {a \in ArgSpace : ConfigError(a) = "" /\ a.build \in Compilers}
  /\ ProcessInit
  /\ WorldInit

Snapshot == << [log_len |-> Len(log), images |-> images, id |-> image.id] >>

Again_same ==
  /\ pc = "ret" /\ second = <<>>
  /\ second' = Snapshot
  /\ pc' = "build"
  /\ UNCHANGED << args, exit_code, err, config, todo, idx, image, fail_cnt, log, printed,
                  world >>

Again_new ==
  /\ pc = "ret" /\ second = <<>>
  /\ second' = Snapshot
  /\ pc' = "init"
  /\ UNCHANGED << args, exit_code, err, config, todo, idx, image, fail_cnt, log, printed,
                  world >>

NextTwice ==
  \/ Main
  \/ Init_identify \/ Init_find
  \/ Build_exists \/ Build_run \/ Build_find
  \/ Again_same \/ Again_new

SpecTwice == InitTwice /\ [][NextTwice]_vars

(***************************************************************************)
(* Reading the command log                                                 *)
(***************************************************************************)

Last(q) == q[Len(q)]

Entries(op) == {i \in DOMAIN log : log[i].op = op}

\* The compiler whose tag a build command names with -t.
BuildCompiler(e) ==
  LET i == CHOOSE k \in DOMAIN e.args : e.args[k][1] = "-t" IN e.args[i][2][3]

BuildsOf(c) == {i \in Entries("build") : BuildCompiler(log[i]) = c}

\* The images queries of find_id name a tag; the compiler is its last part.
QueriesOf(c) == {i \in Entries("images") : log[i].args[1][3] = c}

RmisOf(c) == {i \in Entries("rmi -f") : log[i].args[1] = IdOf(c)}

IndexOf(c) == CHOOSE i \in DOMAIN Keys : Keys[i] = c

\* This step issued the runtime command op.
Issues(op) == Len(log') = Len(log) + 1 /\ Last(log').op = op

(***************************************************************************)
(* C1                                                                      *)
(***************************************************************************)

BothCallsReturned == pc = "ret" /\ second # <<>>

\* C1: two calls of build() in succession for one tag issue at most one
\* build command (one when the image was absent, none when it existed), and
\* the second call finds the image ID present, issues no build command and
\* changes neither the runtime's images nor the ID.
C1_BuildIdempotent ==
  /\ second # <<>> =>
       /\ second[1].id # ""
       /\ \A i \in Entries("build") : i <= second[1].log_len
       /\ images = second[1].images
  /\ BothCallsReturned =>
       /\ Cardinality(BuildsOf(image.compiler)) <= 1
       /\ image.id = second[1].id
       /\ Msg("exists", image.compiler, 0) \in printed

\* C1 witness: both calls returned and the first one built the image.
C1_Witness == BothCallsReturned /\ Cardinality(BuildsOf(image.compiler)) = 1

(***************************************************************************)
(* C2                                                                      *)
(***************************************************************************)

RmReturned == pc = "ret" /\ Method = "rm"

\* C2: rm() on an image that a container references never issues 'rmi -f'
\* for it, prints the in-use warning, and returns with a non-empty image.id.
C2_InUseNotRemoved ==
  /\ \A c \in containers : RmisOf(c) = {}
  /\ (RmReturned /\ image.compiler \in containers) =>
       /\ Msg("in_use", image.compiler, 0) \in printed
       /\ image.id # ""

\* C2 witness: rm() returned for an image that a container references.
C2_Witness == RmReturned /\ image.compiler \in containers

(***************************************************************************)
(* C3                                                                      *)
(***************************************************************************)

\* The compilers whose removal failed: the in-use warning was printed, or
\* 'rmi -f' returned and the image is still there.
FailedRemovals ==
  {c \in Compilers : (Msg("in_use", c, 0) \in printed)
                      \/ (RmisOf(c) # {} /\ c \in images)}

BatchRemove == Method = "rm" /\ args.remove = "all"

BatchBuild == Method = "build" /\ args.build = "all"

\* C4: in 'build all' the build commands come in table order, one per
\* compiler at most, and a build command that returned non-zero is the last
\* command of the process, which has aborted.
C4_BatchBuildAborts ==
  BatchBuild =>
    /\ \A i, j \in Entries("build") :
         i < j => IndexOf(BuildCompiler(log[i])) < IndexOf(BuildCompiler(log[j]))
    /\ \A i \in Entries("build") :
         log[i].rc # 0 => i = Len(log) /\ pc = "aborted" /\ exit_code # << 0 >>

\* C4 witness: the build of a compiler that is neither the first nor the last
\* of the table failed, after an earlier one was built.
C4_Witness ==
  /\ BatchBuild /\ pc = "aborted" /\ log # <<>>
  /\ Last(log).op = "build" /\ Last(log).rc # 0
  /\ IndexOf(BuildCompiler(Last(log))) \in 2 .. (Len(Keys) - 1)
  /\ Cardinality(Entries("build")) >= 2

(***************************************************************************)
(* C5                                                                      *)
(***************************************************************************)

\* rm() is about to inspect an image whose ID it resolved and that is gone.
RemovedInBetween == pc = "rm" /\ ImageExists(image.id) /\ image.compiler \notin images

Given(v) == v # None

\* A command line with a configuration error, in the specification's words.
IsConfigError(a) ==
  \/ a.docker /\ a.podman
  \/ Cardinality({k \in {"list", "build", "remove"} :
                    \/ k = "list" /\ a.list
                    \/ k = "build" /\ Given(a.build)
                    \/ k = "remove" /\ Given(a.remove)}) > 1
  \/ (Given(a.build) \/ Given(a.remove)) /\ ~Given(a.fuzzer)
  \/ (a.quiet \/ Given(a.deps)) /\ ~Given(a.build)
  \/ a.build = Unknown \/ a.remove = Unknown

\* C6: a command line with a configuration error ends the process with a
\* failure status before any runtime command (the ps probe included) is run.
C6_ConfigErrorsAbortFirst ==
  IsConfigError(args) =>
    /\ log = <<>>
    /\ pc \in {"main", "aborted"}
    /\ pc = "aborted" => exit_code \notin { <<>>, << 0 >> }

(***************************************************************************)
(* C7                                                                      *)
(***************************************************************************)

RmOnAbsent == pc = "rm" /\ image.id = ""

\* C7: rm() on an image with an empty id returns at once: no runtime command
\* is issued, the runtime and image.id are as they were, and remove_images
\* does not count the compiler.
C7_RemoveAbsentNoOp ==
  /\ [][RmOnAbsent /\ pc' # pc =>
          /\ pc' = "ret" /\ log' = log /\ image' = image
          /\ images' = images /\ containers' = containers]_vars
  /\ [][RmReturned /\ Msg("no_image", image.compiler, 0) \in printed /\ pc' # pc =>
          fail_cnt' = fail_cnt]_vars

\* C7 witness: 'remove all' is over, a compiler without an image was passed
\* over and nothing was counted.
C7_Witness ==
  /\ BatchRemove /\ pc = "list" /\ fail_cnt = 0
  /\ \E c \in Compilers :
       /\ Msg("no_image", c, 0) \in printed
       /\ QueriesOf(c) # {} /\ RmisOf(c) = {}

(***************************************************************************)
(* C8                                                                      *)
(***************************************************************************)

NoAction(a) == ~a.list /\ ~Given(a.build) /\ ~Given(a.remove)

\* C8: the process that completes its list, build or remove path exits with
\* 0, also when remove_images counted failures; the process started without
\* --list, --build and --remove exits with 1.
C8_ExitCodes ==
  /\ pc = "done" => exit_code = << 0 >>
  /\ exit_code = << 0 >> => pc = "done"
  /\ (NoAction(args) /\ pc # "main") => pc = "aborted" /\ exit_code = << 1 >>

\* C8 witness: a remove run that counted failures has exited.
C8_Witness == pc = "done" /\ Method = "rm" /\ fail_cnt > 0

(***************************************************************************)
(* C9                                                                      *)
(***************************************************************************)

Sudo == Len(runtime_cmd) = 2

\* C9 as the specification states it: the sudo prefix is adopted only after
\* a retried probe, run with that prefix, succeeded.
C9_SudoAfterRetry ==
  Sudo => \E i \in Entries("ps") : log[i].prefix = runtime_cmd /\ log[i].rc = 0

\* C9 as the code has it: the probe is run once per process at most, never
\* with the sudo prefix; [sudo, docker] is adopted on the failed probe of
\* docker without a retry; a resolved prefix never changes.
C9_PrefixResolvedOnce ==
  /\ [](/\ Cardinality(Entries("ps")) <= 1
        /\ \A i \in Entries("ps") : log[i].prefix = << runtime >>
        /\ runtime_cmd # <<>> => Cardinality(Entries("ps")) = 1
        /\ Sudo => /\ runtime_cmd = << "sudo", "docker" >>
                   /\ runtime = "docker"
                   /\ \A i \in Entries("ps") : log[i].rc # 0
        /\ runtime_cmd # <<>> /\ ~Sudo =>
              /\ runtime_cmd = << runtime >>
              /\ \A i \in Entries("ps") : log[i].rc = 0)
  /\ [][runtime_cmd # <<>> => runtime_cmd' = runtime_cmd]_vars

\* C9 witness: a run with the sudo prefix that went through several images.
C9_Witness == Sudo /\ pc = "done" /\ Len(todo) > 1 /\ Cardinality(Entries("images")) > 1

(***************************************************************************)
(* C10                                                                     *)
(***************************************************************************)

\* C10: whenever 'rmi -f' is issued, no container references the image.
C10_RmiOnlyWhenUnreferenced ==
  [][Issues("rmi -f") => image.compiler \notin containers]_vars

====
